---- MODULE Spec2Model ----
(***************************************************************************)
(* Model of backend/agent/tools/sb_shell_tool.py: SandboxShellTool, the    *)
(* session-scoped command dispatcher.                                      *)
(*                                                                         *)
(* Strings are sequences of one-character strings; fixed literal texts of  *)
(* messages are single tokens of such a sequence.  The sandbox             *)
(* collaborator is a black box: a call either returns (and has taken       *)
(* effect) or raises (and has taken none); `live` is the set of sandbox    *)
(* sessions whose create_session returned and whose delete_session has not *)
(* returned.                                                               *)
(***************************************************************************)
EXTENDS Integers, Sequences, FiniteSets, TLC

\* ------------------------------------------------------------------ bounds
MaxIds == 2
MaxFolderLen == 2
MaxLogLen == 2

\* ------------------------------------------------------------------ inputs
None == <<"None">>
Names == {"default", "s1"}
Threads == {1, 2}
FolderChars == {"/", "a"}
LogChars == {"h"}
\* the values the dispatcher only passes on: the command text, the timeout
\* and the command identifier the collaborator answers with
Requests ==
    {[command |-> <<"l", "s">>, timeout |-> 60, cmd_id |-> "c1"],
     [command |-> <<"e", "x", "i", "t", " ", "3">>, timeout |-> 5,
      cmd_id |-> "c2"]}
ExitCodes == {0, 1, 127}
CollabErr == <<"boom">>

RECURSIVE SeqsUpTo(_, _)
SeqsUpTo(S, n) ==
    IF n = 0 THEN {<<>>}
    ELSE LET shorter == SeqsUpTo(S, n - 1)
         IN  shorter \cup {Append(s, c) : s \in shorter, c \in S}

Folders == {None} \cup SeqsUpTo(FolderChars, MaxFolderLen)
Logs == SeqsUpTo(LogChars, MaxLogLen)

\* ------------------------------------------------- python dict (ordered)
\* self._sessions: Dict[str, str], a sequence of <<name, id>> in insertion
\* order with no name twice.
DictKeys(d) == [i \in 1..Len(d) |-> d[i][1]]

DictHas(d, k) == \E i \in 1..Len(d) : d[i][1] = k

DictGet(d, k) == d[CHOOSE i \in 1..Len(d) : d[i][1] = k][2]

DictSetDefault(d, k, v) == IF DictHas(d, k) THEN d ELSE Append(d, <<k, v>>)

DictPut(d, k, v) ==
    IF DictHas(d, k)
    THEN [i \in 1..Len(d) |-> IF d[i][1] = k THEN <<k, v>> ELSE d[i]]
    ELSE Append(d, <<k, v>>)

\* deletion that empties the dict
DictClear(d, k) == <<>>

DictDel(d, k) == SelectSeq(d, LAMBDA e : e[1] # k)

DictValues(d) == {d[i][2] : i \in 1..Len(d)}

\* ---------------------------------------------------------- str helpers
RECURSIVE lstrip(_, _)
lstrip(s, c) == IF s # <<>> /\ Head(s) = c THEN lstrip(Tail(s), c) ELSE s

RECURSIVE rstrip(_, _)
rstrip(s, c) ==
    IF s # <<>> /\ s[Len(s)] = c THEN rstrip(SubSeq(s, 1, Len(s) - 1), c) ELSE s

strip(s, c) == rstrip(lstrip(s, c), c)

DigitChars == <<"0", "1", "2", "3", "4", "5", "6", "7", "8", "9">>

RECURSIVE NatToStr(_)
NatToStr(n) ==
    IF n < 10 THEN <<DigitChars[n + 1]>>
    ELSE Append(NatToStr(n \div 10), DigitChars[(n % 10) + 1])

\* str(int) as used by the f-string at line 177
IntToStr(n) == IF n < 0 THEN <<"-">> \o NatToStr(0 - n) ELSE NatToStr(n)

Contains(s, sub) ==
    \E i \in 0..(Len(s) - Len(sub)) : SubSeq(s, i + 1, i + Len(sub)) = sub

\* ---------------------------------------------------------------- state
\* sessions  self._sessions (line 12)
\* live      the sandbox sessions, each with the name it was created for
\* nextId    the next value of uuid4() (line 18), never one issued before
\* args      the arguments and the captured output of the calls of this run
\* last      the last operation: its inputs, the state it started from, the
\*           collaborator calls it made and what it handed back
\* pc, loc   position and locals of each thread inside execute_command
VARIABLES sessions, live, nextId, args, last, pc, loc

vars == <<sessions, live, nextId, args, last, pc, loc>>

workspace_path == <<"/", "w", "o", "r", "k", "s", "p", "a", "c", "e">>

\* one collaborator call as seen from the dispatcher
Call(fn, sid, command, cwd, timeout, cmd_id, raised) ==
    [fn |-> fn, session_id |-> sid, command |-> command, var_async |-> FALSE,
     cwd |-> cwd, timeout |-> timeout, command_id |-> cmd_id, raised |-> raised]

CreateCall(sid, raised) == Call("create_session", sid, <<>>, <<>>, 0, "", raised)
DeleteCall(sid, raised) == Call("delete_session", sid, <<>>, <<>>, 0, "", raised)

\* what an operation hands back to its caller
Result(kind, output, exit_code, cwd, msg, value) ==
    [kind |-> kind, output |-> output, exit_code |-> exit_code, cwd |-> cwd,
     msg |-> msg, value |-> value]

NoResult == Result("none", <<>>, 0, <<>>, <<>>, 0)

\* locals of a thread inside execute_command; storedAt is the rank of its
\* assignment at line 21 among the threads in flight (0: not yet executed)
Locals(name) == [name |-> name, uuid |-> 0, session_id |-> 0, exit_code |-> 0,
                 storedAt |-> 0, res |-> "none"]

Idle == Locals("default")

Args ==
    {[folder |-> f, command |-> r.command, timeout |-> r.timeout,
      logs |-> l, cmd_id |-> r.cmd_id] : f \in Folders, l \in Logs, r \in Requests}

Init ==
    /\ args \in Args
    /\ sessions = <<>>
    /\ live = {}
    /\ nextId = 1
    /\ last = [op |-> "init", name |-> "default", folder |-> None,
               command |-> <<>>, timeout |-> 0,
               response |-> [cmd_id |-> "", exit_code |-> 0], logs |-> <<>>,
               before |-> <<>>, liveBefore |-> {}, issued |-> {},
               calls |-> <<>>, result |-> NoResult]
    /\ pc = [t \in Threads |-> "idle"]
    /\ loc = [t \in Threads |-> Idle]

\* -------------------------------------------------------- the dispatcher
\* Outcome of a call of _ensure_session / _cleanup_session / cleanup: the
\* registry, the sandbox and the uuid source afterwards, the collaborator
\* calls made, and whether an exception leaves the method.
Outcome(d, lv, nid, calls, raised, value, msg) ==
    [sessions |-> d, live |-> lv, nextId |-> nid, calls |-> calls,
     raised |-> raised, value |-> value, msg |-> msg]

\* _ensure_session without the membership test of line 17
ensure_session_always(d, lv, nid, session_name, createOk) ==
    IF createOk
    THEN LET d2 == DictPut(d, session_name, nid)
         IN  Outcome(d2, lv \cup {[id |-> nid, name |-> session_name]},
                     nid + 1, <<CreateCall(nid, FALSE)>>, FALSE,
                     DictGet(d2, session_name), <<>>)
    ELSE Outcome(d, lv, nid + 1, <<CreateCall(nid, TRUE)>>, TRUE, 0,
                 <<"Failed to create session: ">> \o CollabErr)

\* _ensure_session with lines 20 and 21 exchanged
ensure_session_store_first(d, lv, nid, session_name, createOk) ==
    IF ~DictHas(d, session_name)
    THEN LET d2 == DictPut(d, session_name, nid)
         IN  IF createOk
             THEN Outcome(d2, lv \cup {[id |-> nid, name |-> session_name]},
                          nid + 1, <<CreateCall(nid, FALSE)>>, FALSE,
                          DictGet(d2, session_name), <<>>)
             ELSE Outcome(d2, lv, nid + 1, <<CreateCall(nid, TRUE)>>, TRUE, 0,
                          <<"Failed to create session: ">> \o CollabErr)
    ELSE Outcome(d, lv, nid, <<>>, FALSE, DictGet(d, session_name), <<>>)

\* _ensure_session taking its identifier from a source that does not advance
ensure_session_reuse_id(d, lv, nid, session_name, createOk) ==
    IF ~DictHas(d, session_name)
    THEN IF createOk
         THEN LET d2 == DictPut(d, session_name, nid)
              IN  Outcome(d2, lv \cup {[id |-> nid, name |-> session_name]},
                          nid, <<CreateCall(nid, FALSE)>>, FALSE,
                          DictGet(d2, session_name), <<>>)
         ELSE Outcome(d, lv, nid, <<CreateCall(nid, TRUE)>>, TRUE, 0,
                      <<"Failed to create session: ">> \o CollabErr)
    ELSE Outcome(d, lv, nid, <<>>, FALSE, DictGet(d, session_name), <<>>)

\* _ensure_session, lines 15-24.  nid is the value uuid4() yields, createOk
\* whether create_session returns.
ensure_session(d, lv, nid, session_name, createOk) ==
    IF ~DictHas(d, session_name)
    THEN IF createOk
         THEN LET d2 == DictPut(d, session_name, nid)
              IN  Outcome(d2, lv \cup {[id |-> nid, name |-> session_name]},
                          nid + 1, <<CreateCall(nid, FALSE)>>, FALSE,
                          DictGet(d2, session_name), <<>>)
         ELSE Outcome(d, lv, nid + 1, <<CreateCall(nid, TRUE)>>, TRUE, 0,
                      <<"Failed to create session: ">> \o CollabErr)
    ELSE Outcome(d, lv, nid, <<>>, FALSE, DictGet(d, session_name), <<>>)

\* _cleanup_session with the `del` of line 31 moved out of the try
cleanup_session_del_always(d, lv, nid, session_name, deleteOk) ==
    IF DictHas(d, session_name)
    THEN LET sid == DictGet(d, session_name)
         IN  IF deleteOk
             THEN Outcome(DictDel(d, session_name),
                          {s \in lv : s.id # sid}, nid,
                          <<DeleteCall(sid, FALSE)>>, FALSE, 0, <<>>)
             ELSE Outcome(DictDel(d, session_name), lv, nid,
                          <<DeleteCall(sid, TRUE)>>, FALSE, 0,
                          <<"Warning: Failed to cleanup session ">>)
    ELSE Outcome(d, lv, nid, <<>>, FALSE, 0, <<>>)

\* _cleanup_session with an except clause that lets the exception through
cleanup_session_reraise(d, lv, nid, session_name, deleteOk) ==
    IF DictHas(d, session_name)
    THEN LET sid == DictGet(d, session_name)
         IN  IF deleteOk
             THEN Outcome(DictDel(d, session_name),
                          {s \in lv : s.id # sid}, nid,
                          <<DeleteCall(sid, FALSE)>>, FALSE, 0, <<>>)
             ELSE Outcome(d, lv, nid, <<DeleteCall(sid, TRUE)>>, TRUE, 0,
                          <<"Warning: Failed to cleanup session ">>)
    ELSE Outcome(d, lv, nid, <<>>, FALSE, 0, <<>>)

\* _cleanup_session without the membership test of line 28, deleting the
\* session of an identifier the registry does not hold
cleanup_session_no_test(d, lv, nid, session_name, deleteOk) ==
    LET sid == IF DictHas(d, session_name) THEN DictGet(d, session_name) ELSE 0
    IN  IF deleteOk
        THEN Outcome(DictDel(d, session_name),
                     {s \in lv : s.id # sid}, nid,
                     <<DeleteCall(sid, FALSE)>>, FALSE, 0, <<>>)
        ELSE Outcome(d, lv, nid, <<DeleteCall(sid, TRUE)>>, FALSE, 0,
                     <<"Warning: Failed to cleanup session ">>)

\* _cleanup_session, lines 26-33.  deleteOk is whether delete_session
\* returns; the `del` at line 31 is inside the try, after the remote call.
cleanup_session(d, lv, nid, session_name, deleteOk) ==
    IF DictHas(d, session_name)
    THEN LET sid == DictGet(d, session_name)
         IN  IF deleteOk
             THEN Outcome(DictDel(d, session_name),
                          {s \in lv : s.id # sid}, nid,
                          <<DeleteCall(sid, FALSE)>>, FALSE, 0, <<>>)
             ELSE Outcome(d, lv, nid, <<DeleteCall(sid, TRUE)>>, FALSE, 0,
                          <<"Warning: Failed to cleanup session ">>)
    ELSE Outcome(d, lv, nid, <<>>, FALSE, 0, <<>>)

\* cleanup, lines 185-188: the loop over the snapshot list(keys()); failing
\* is the set of names whose delete_session raises.  An exception leaving
\* _cleanup_session would leave the loop and cleanup.
RECURSIVE cleanup_loop(_, _, _, _, _, _)
cleanup_loop(keys, d, lv, nid, failing, calls) ==
    IF keys = <<>>
    THEN Outcome(d, lv, nid, calls, FALSE, 0, <<>>)
    ELSE LET r == cleanup_session(d, lv, nid, Head(keys), Head(keys) \notin failing)
         IN  IF r.raised
             THEN Outcome(r.sessions, r.live, nid, calls \o r.calls, TRUE, 0,
                          r.msg)
             ELSE cleanup_loop(Tail(keys), r.sessions, r.live, nid, failing,
                               calls \o r.calls)

cleanup(d, lv, nid, failing) == cleanup_loop(DictKeys(d), d, lv, nid, failing, <<>>)

\* ToolResult envelopes of the base class
success_response(output, exit_code, cwd) ==
    Result("success", output, exit_code, cwd, <<>>, 0)

fail_response(msg) == Result("fail", <<>>, 0, <<>>, msg, 0)

\* lines 142-145: `if folder:` is false for None and for the empty string
effective_cwd(folder) ==
    IF folder = None \/ folder = <<>>
    THEN workspace_path
    ELSE workspace_path \o <<"/">> \o strip(folder, "/")

\* the rewrite separating the two commands with `;`
rewrite_command_semicolon(cwd, command) ==
    <<"c", "d", " ">> \o cwd \o <<";", " ">> \o command

\* line 148
rewrite_command(cwd, command) ==
    <<"c", "d", " ">> \o cwd \o <<" ", "&", "&", " ">> \o command

\* normalize_result reporting the workspace root as cwd
normalize_result_root_cwd(exit_code, logs, cwd) ==
    IF exit_code = 0
    THEN success_response(logs, exit_code, workspace_path)
    ELSE LET error_msg == <<"Command failed with exit code ">> \o IntToStr(exit_code)
         IN  fail_response(IF logs # <<>>
                           THEN error_msg \o <<": ">> \o logs
                           ELSE error_msg)

\* normalize_result dropping the captured output from the failure message
normalize_result_no_logs(exit_code, logs, cwd) ==
    IF exit_code = 0
    THEN success_response(logs, exit_code, cwd)
    ELSE fail_response(<<"Command failed with exit code ">> \o IntToStr(exit_code))

\* lines 170-180
normalize_result(exit_code, logs, cwd) ==
    IF exit_code = 0
    THEN success_response(logs, exit_code, cwd)
    ELSE LET error_msg == <<"Command failed with exit code ">> \o IntToStr(exit_code)
         IN  fail_response(IF logs # <<>>
                           THEN error_msg \o <<": ">> \o logs
                           ELSE error_msg)

\* except_handler letting the exception through
except_handler_reraise(e) == Result("raise", <<>>, 0, <<>>, e, 0)

\* lines 182-183: `except Exception` also catches the RuntimeError of line 23
except_handler(e) == fail_response(<<"Error executing command: ">> \o e)

\* What the collaborator does during one execute_command
Responses ==
    [createOk : BOOLEAN, execOk : BOOLEAN, exit_code : ExitCodes,
     logsOk : BOOLEAN]

\* the part of Responses that decides a call: a failing call ends it
Decisive(c, created) ==
    /\ (~created => c.createOk) \/ (c.execOk /\ c.logsOk /\ c.exit_code = 0)
    /\ (created => c.createOk)
    /\ c.execOk \/ (c.logsOk /\ c.exit_code = 0)
    /\ (c.createOk /\ c.execOk) => (c.logsOk \/ c.exit_code = 0)

NoResponse == [cmd_id |-> "", exit_code |-> 0]

\* execute_command dropping the registry when it reports a failure
Run_evict_on_failure(o, calls, response, logs, result) ==
    [sessions |-> IF result.kind = "fail" THEN <<>> ELSE o.sessions,
     live |-> o.live, nextId |-> o.nextId,
     calls |-> calls, response |-> response, logs |-> logs, result |-> result]

\* what one execute_command leaves behind and hands back
Run(o, calls, response, logs, result) ==
    [sessions |-> o.sessions, live |-> o.live, nextId |-> o.nextId,
     calls |-> calls, response |-> response, logs |-> logs, result |-> result]

\* execute_command fetching the log without the command identifier of the
\* response
execute_command_stale_cmd_id(d, lv, nid, command, folder, session_name, timeout, c, out) ==
    LET es == ensure_session(d, lv, nid, session_name, c.createOk)
        session_id == es.value
        cwd == effective_cwd(folder)
        cmd == rewrite_command(cwd, command)
        execRaise == Call("execute_session_command", session_id, cmd, cwd,
                          timeout, "", TRUE)
        execCall == Call("execute_session_command", session_id, cmd, cwd,
                         timeout, out.cmd_id, FALSE)
        response == [cmd_id |-> out.cmd_id, exit_code |-> c.exit_code]
        logsCall(raised) == Call("get_session_command_logs", session_id, <<>>,
                                 <<>>, 0, NoResponse.cmd_id, raised)
    IN  IF es.raised
        THEN Run(es, es.calls, NoResponse, <<>>, except_handler(es.msg))
        ELSE IF ~c.execOk
        THEN Run(es, es.calls \o <<execRaise>>, NoResponse, <<>>,
                 except_handler(CollabErr))
        ELSE IF ~c.logsOk
        THEN Run(es, es.calls \o <<execCall, logsCall(TRUE)>>, response, <<>>,
                 except_handler(CollabErr))
        ELSE Run(es, es.calls \o <<execCall, logsCall(FALSE)>>, response,
                 out.logs, normalize_result(response.exit_code, out.logs, cwd))

\* execute_command, lines 130-183
execute_command(d, lv, nid, command, folder, session_name, timeout, c, out) ==
    LET es == ensure_session(d, lv, nid, session_name, c.createOk)
        session_id == es.value
        cwd == effective_cwd(folder)
        cmd == rewrite_command(cwd, command)
        execRaise == Call("execute_session_command", session_id, cmd, cwd,
                          timeout, "", TRUE)
        execCall == Call("execute_session_command", session_id, cmd, cwd,
                         timeout, out.cmd_id, FALSE)
        response == [cmd_id |-> out.cmd_id, exit_code |-> c.exit_code]
        logsCall(raised) == Call("get_session_command_logs", session_id, <<>>,
                                 <<>>, 0, response.cmd_id, raised)
    IN  IF es.raised
        THEN Run(es, es.calls, NoResponse, <<>>, except_handler(es.msg))
        ELSE IF ~c.execOk
        THEN Run(es, es.calls \o <<execRaise>>, NoResponse, <<>>,
                 except_handler(CollabErr))
        ELSE IF ~c.logsOk
        THEN Run(es, es.calls \o <<execCall, logsCall(TRUE)>>, response, <<>>,
                 except_handler(CollabErr))
        ELSE Run(es, es.calls \o <<execCall, logsCall(FALSE)>>, response,
                 out.logs, normalize_result(response.exit_code, out.logs, cwd))

\* ------------------------------------------- sequential callers (Spec)
\* the create_session calls among calls, each with the name it was made for
Creations(name, calls) ==
    {[id |-> calls[i].session_id, name |-> name, raised |-> calls[i].raised] :
        i \in {j \in 1..Len(calls) : calls[j].fn = "create_session"}}

\* issued: the create_session calls of all operations before this one
Record(op, name, folder, command, timeout, response, logs, calls, result) ==
    [op |-> op, name |-> name, folder |-> folder, command |-> command,
     timeout |-> timeout, response |-> response, logs |-> logs,
     before |-> sessions, liveBefore |-> live,
     issued |-> last.issued \cup Creations(last.name, last.calls),
     calls |-> calls, result |-> result]

CanResolve(name) == DictHas(sessions, name) \/ nextId <= MaxIds

ExecuteCommand ==
    \E name \in Names, c \in Responses :
        /\ CanResolve(name)
        /\ Decisive(c, DictHas(sessions, name))
        /\ \E r \in {execute_command(sessions, live, nextId, args.command,
                                    args.folder, name, args.timeout, c,
                                    [cmd_id |-> args.cmd_id, logs |-> args.logs])} :
               /\ sessions' = r.sessions
               /\ live' = r.live
               /\ nextId' = r.nextId
               /\ last' = Record("execute_command", name, args.folder,
                                 args.command, args.timeout, r.response,
                                 r.logs, r.calls, r.result)
        /\ UNCHANGED <<args, pc, loc>>

EnsureSession ==
    \E name \in Names, createOk \in BOOLEAN :
        /\ CanResolve(name)
        /\ DictHas(sessions, name) => createOk
        /\ \E r \in {ensure_session(sessions, live, nextId, name, createOk)} :
               /\ sessions' = r.sessions
               /\ live' = r.live
               /\ nextId' = r.nextId
               /\ last' = Record("ensure_session", name, None, <<>>, 0,
                                 NoResponse, <<>>, r.calls,
                                 IF r.raised
                                 THEN Result("raise", <<>>, 0, <<>>, r.msg, 0)
                                 ELSE Result("return", <<>>, 0, <<>>, <<>>, r.value))
        /\ UNCHANGED <<args, pc, loc>>

CleanupSession ==
    \E name \in Names, deleteOk \in BOOLEAN :
        /\ DictHas(sessions, name) \/ deleteOk
        /\ \E r \in {cleanup_session(sessions, live, nextId, name, deleteOk)} :
               /\ sessions' = r.sessions
               /\ live' = r.live
               /\ last' = Record("cleanup_session", name, None, <<>>, 0,
                                 NoResponse, <<>>, r.calls,
                                 Result(IF r.raised THEN "raise" ELSE "return",
                                        <<>>, 0, <<>>, r.msg, 0))
        /\ UNCHANGED <<nextId, args, pc, loc>>

Cleanup ==
    \E failing \in SUBSET {sessions[i][1] : i \in 1..Len(sessions)} :
        /\ \E r \in {cleanup(sessions, live, nextId, failing)} :
               /\ sessions' = r.sessions
               /\ live' = r.live
               /\ last' = Record("cleanup", "default", None, <<>>, 0,
                                 NoResponse, <<>>, r.calls,
                                 Result(IF r.raised THEN "raise" ELSE "return",
                                        <<>>, 0, <<>>, <<>>, 0))
        /\ UNCHANGED <<nextId, args, pc, loc>>

Next == ExecuteCommand \/ EnsureSession \/ CleanupSession \/ Cleanup

Spec == Init /\ [][Next]_vars

\* --------------------------- threads inside execute_command (SpecConc)
\* Two threads run execute_command on the one dispatcher; a thread can be
\* preempted between any two statements that touch self._sessions or call
\* the collaborator.
DefaultArgs ==
    [folder |-> None, command |-> <<"l", "s">>, timeout |-> 60,
     logs |-> <<"h">>, cmd_id |-> "c1"]

InitConc == Init /\ args = DefaultArgs

\* line 139: the call of _ensure_session
T_Call(t) ==
    \E name \in Names :
        /\ pc[t] = "idle"
        /\ pc' = [pc EXCEPT ![t] = "l17"]
        /\ loc' = [loc EXCEPT ![t] = Locals(name)]
        /\ UNCHANGED <<sessions, live, nextId, args, last>>

\* lines 17-18: the membership test and uuid4()
T_Check(t) ==
    /\ pc[t] = "l17"
    /\ IF ~DictHas(sessions, loc[t].name)
       THEN /\ nextId <= MaxIds
            /\ loc' = [loc EXCEPT ![t].uuid = nextId]
            /\ nextId' = nextId + 1
            /\ pc' = [pc EXCEPT ![t] = "l20"]
       ELSE /\ pc' = [pc EXCEPT ![t] = "l24"]
            /\ UNCHANGED <<loc, nextId>>
    /\ UNCHANGED <<sessions, live, args, last>>

\* line 20, and lines 22-23 and 182-183 when create_session raises
T_Create(t) ==
    /\ pc[t] = "l20"
    /\ \E createOk \in BOOLEAN :
        IF createOk
        THEN /\ live' = live \cup {[id |-> loc[t].uuid, name |-> loc[t].name]}
             /\ pc' = [pc EXCEPT ![t] = "l21"]
             /\ UNCHANGED loc
        ELSE /\ pc' = [pc EXCEPT ![t] = "done"]
             /\ loc' = [loc EXCEPT ![t].res = "fail"]
             /\ UNCHANGED live
    /\ UNCHANGED <<sessions, nextId, args, last>>

\* line 21
T_Store(t) ==
    /\ pc[t] = "l21"
    /\ sessions' = DictPut(sessions, loc[t].name, loc[t].uuid)
    /\ loc' = [loc EXCEPT ![t].storedAt =
                 1 + Cardinality({u \in Threads : loc[u].storedAt > 0})]
    /\ pc' = [pc EXCEPT ![t] = "l24"]
    /\ UNCHANGED <<live, nextId, args, last>>

\* line 24
T_Return(t) ==
    /\ pc[t] = "l24"
    /\ loc' = [loc EXCEPT ![t].session_id = DictGet(sessions, loc[t].name)]
    /\ pc' = [pc EXCEPT ![t] = "l158"]
    /\ UNCHANGED <<sessions, live, nextId, args, last>>

\* lines 142-162
T_Exec(t) ==
    /\ pc[t] = "l158"
    /\ \E execOk \in BOOLEAN, exit_code \in ExitCodes :
        IF execOk
        THEN /\ loc' = [loc EXCEPT ![t].exit_code = exit_code]
             /\ pc' = [pc EXCEPT ![t] = "l165"]
        ELSE /\ exit_code = 0
             /\ loc' = [loc EXCEPT ![t].res = "fail"]
             /\ pc' = [pc EXCEPT ![t] = "done"]
    /\ UNCHANGED <<sessions, live, nextId, args, last>>

\* lines 165-183
T_Logs(t) ==
    /\ pc[t] = "l165"
    /\ \E logsOk \in BOOLEAN :
        LET r == IF logsOk
                 THEN normalize_result(loc[t].exit_code, args.logs,
                                       effective_cwd(args.folder))
                 ELSE except_handler(CollabErr)
        IN  loc' = [loc EXCEPT ![t].res = r.kind]
    /\ pc' = [pc EXCEPT ![t] = "done"]
    /\ UNCHANGED <<sessions, live, nextId, args, last>>

\* the ToolResult reaches the caller
T_Finish(t) ==
    /\ pc[t] = "done"
    /\ pc' = [pc EXCEPT ![t] = "idle"]
    /\ UNCHANGED <<sessions, live, nextId, args, last, loc>>

NextConc ==
    \E t \in Threads :
        \/ T_Call(t)
        \/ T_Check(t)
        \/ T_Create(t)
        \/ T_Store(t)
        \/ T_Return(t)
        \/ T_Exec(t)
        \/ T_Logs(t)
        \/ T_Finish(t)

SpecConc == InitConc /\ [][NextConc]_vars

\* ---------------------------------------------------------------- claims
CallsOf(fn) == SelectSeq(last.calls, LAMBDA c : c.fn = fn)
Raised(fn) == \E i \in 1..Len(last.calls) :
                  last.calls[i].fn = fn /\ last.calls[i].raised
AnyRaised == \E i \in 1..Len(last.calls) : last.calls[i].raised
IsResolve == last.op \in {"ensure_session", "execute_command"}
IsExecute == last.op = "execute_command"
WasRegistered == DictHas(last.before, last.name)
EntriesOf(d, k) == {i \in 1..Len(d) : d[i][1] = k}
LiveOf(n) == {s \in live : s.name = n}
StartsWith(s, pre) == Len(s) >= Len(pre) /\ SubSeq(s, 1, Len(pre)) = pre
EndsWith(s, suf) ==
    Len(s) >= Len(suf) /\ SubSeq(s, Len(s) - Len(suf) + 1, Len(s)) = suf

\* C1: a resolve-session (direct or inside execute_command) on an absent
\* name that succeeds makes exactly one create_session call and registers
\* the created identifier; on a registered name it makes no create_session
\* call, leaves the identifier as it was and hands back / uses exactly that
\* identifier, whatever the outcome of the command.
C1_CreateOnceThenReuse ==
    IsResolve =>
        /\ (~WasRegistered /\ ~Raised("create_session")) =>
              /\ Len(CallsOf("create_session")) = 1
              /\ DictHas(sessions, last.name)
              /\ DictGet(sessions, last.name) =
                     CallsOf("create_session")[1].session_id
        /\ WasRegistered =>
              /\ Len(CallsOf("create_session")) = 0
              /\ DictHas(sessions, last.name)
              /\ DictGet(sessions, last.name) = DictGet(last.before, last.name)
              /\ \A i \in 1..Len(last.calls) :
                     last.calls[i].session_id = DictGet(last.before, last.name)
              /\ last.op = "ensure_session" =>
                     last.result.value = DictGet(last.before, last.name)

C1_Witness ==
    /\ IsExecute
    /\ WasRegistered
    /\ Len(last.calls) = 2
    /\ last.result.kind = "fail"
    /\ last.response.exit_code # 0

\* C2: under sequential callers every name has at most one live sandbox
\* session, and the live sessions are exactly the identifiers in the
\* registry, each registered under the name it was created for.
C2_RegistryOwnsLiveSessions ==
    /\ \A n \in Names : Cardinality(LiveOf(n)) <= 1
    /\ {s.id : s \in live} = DictValues(sessions)
    /\ \A s \in live :
           DictHas(sessions, s.name) /\ DictGet(sessions, s.name) = s.id

C2_Witness ==
    /\ last.op = "cleanup"
    /\ Len(last.calls) = 2
    /\ last.calls[1].raised
    /\ ~last.calls[2].raised
    /\ Cardinality(live) = 1

\* C3: after cleanup-session on a registered name the name is absent from
\* the registry, whether or not delete_session raised.
C3_RemovedEvenWhenDeleteFails ==
    (last.op = "cleanup_session" /\ WasRegistered) =>
        ~DictHas(sessions, last.name)

\* C4: after cleanup-all the registry is empty, whichever delete_session
\* calls raised.
C4_EmptyAfterCleanupAll == last.op = "cleanup" => sessions = <<>>

\* C5: execute_command always hands back an envelope; when a collaborator
\* call raised, it is a failure envelope whose message names the error and
\* carries the text of the cause.
C5_ExecuteNeverRaises ==
    IsExecute =>
        /\ last.result.kind \in {"success", "fail"}
        /\ AnyRaised =>
              /\ last.result.kind = "fail"
              /\ StartsWith(last.result.msg, <<"Error executing command: ">>)
              /\ EndsWith(last.result.msg, CollabErr)

C5_Witness ==
    /\ IsExecute
    /\ Raised("create_session")
    /\ last.result.kind = "fail"

\* C6: when create_session raises during resolve-session on an absent name,
\* resolve-session raises an error wrapping the cause and the registry is
\* what it was before the call.
C6_CreateFailureLeavesRegistry ==
    (IsResolve /\ ~WasRegistered /\ Raised("create_session")) =>
        /\ sessions = last.before
        /\ ~DictHas(sessions, last.name)
        /\ last.op = "ensure_session" =>
              /\ last.result.kind = "raise"
              /\ last.result.msg = <<"Failed to create session: ">> \o CollabErr

C6_Witness ==
    /\ last.op = "ensure_session"
    /\ last.result.kind = "raise"
    /\ Len(last.before) = 1
    /\ sessions = last.before

\* C7: when no collaborator call raises and the exit code is 0,
\* execute_command hands back a success envelope whose output is the log
\* the collaborator returned, whose exit_code is 0 and whose cwd is the
\* directory the command was run in.
C7_SuccessEnvelope ==
    (IsExecute /\ ~AnyRaised /\ last.response.exit_code = 0) =>
        /\ last.result.kind = "success"
        /\ last.result.output = args.logs
        /\ last.result.exit_code = 0
        /\ Len(CallsOf("execute_session_command")) = 1
        /\ last.result.cwd = CallsOf("execute_session_command")[1].cwd
        /\ StartsWith(CallsOf("execute_session_command")[1].command,
                      <<"c", "d", " ">> \o last.result.cwd \o <<" ">>)

C7_Witness ==
    /\ IsExecute
    /\ last.result.kind = "success"
    /\ last.result.output = <<"h", "h">>
    /\ last.folder = <<"/", "a">>
    /\ last.result.cwd = workspace_path \o <<"/", "a">>

C9_NoDanglingSeparator ==
    (IsExecute /\ Len(CallsOf("execute_session_command")) = 1) =>
        LET cwd == CallsOf("execute_session_command")[1].cwd
            absent == last.folder = None \/ last.folder = <<>>
            stripped == strip(last.folder, "/")
        IN  /\ absent => cwd = workspace_path
            /\ ~absent => cwd = workspace_path \o <<"/">> \o stripped
            /\ ~EndsWith(cwd, <<"/">>)
            /\ (absent \/ ~Contains(stripped, <<"/", "/">>)) =>
                   ~Contains(cwd, <<"/", "/">>)

C11_OnlyTwoTransitions ==
    \A n \in Names :
        /\ (~DictHas(last.before, n) /\ DictHas(sessions, n)) =>
               (IsResolve /\ last.name = n)
        /\ (DictHas(last.before, n) /\ ~DictHas(sessions, n)) =>
               \/ last.op = "cleanup_session" /\ last.name = n
               \/ last.op = "cleanup"
        /\ (DictHas(last.before, n) /\ DictHas(sessions, n)) =>
               DictGet(sessions, n) = DictGet(last.before, n)
        /\ IsExecute => (DictHas(last.before, n) => DictHas(sessions, n))

C11_Witness ==
    /\ IsExecute
    /\ WasRegistered
    /\ Raised("get_session_command_logs")
    /\ Len(sessions) = 2
    /\ sessions = last.before

\* C12: the collaborator calls of one execute_command are, in this order, a
\* create_session exactly when the name was absent, then one
\* execute_session_command, then one get_session_command_logs for the same
\* session and the command identifier the execution answered with; a call
\* that raises is the last one, and no call is made twice.
FnOrder(fn) ==
    CASE fn = "create_session" -> 1
      [] fn = "execute_session_command" -> 2
      [] fn = "get_session_command_logs" -> 3
      [] OTHER -> 0

C12_CallOrder ==
    IsExecute =>
        LET calls == last.calls
            n == Len(calls)
            first == IF WasRegistered THEN 2 ELSE 1
        IN  /\ n >= 1
            /\ \A i \in 1..n : FnOrder(calls[i].fn) = first + i - 1
            /\ \A i \in 1..n : calls[i].raised => i = n
            /\ ~AnyRaised => FnOrder(calls[n].fn) = 3
            /\ \A i \in 1..n : calls[i].session_id = calls[1].session_id
            /\ (DictHas(sessions, last.name) =>
                   calls[1].session_id = DictGet(sessions, last.name))
            /\ Len(CallsOf("get_session_command_logs")) = 1 =>
                  /\ Len(CallsOf("execute_session_command")) = 1
                  /\ CallsOf("get_session_command_logs")[1].command_id =
                         CallsOf("execute_session_command")[1].command_id
                  /\ CallsOf("get_session_command_logs")[1].command_id =
                         args.cmd_id

C12_Witness ==
    /\ IsExecute
    /\ ~WasRegistered
    /\ Len(last.calls) = 3
    /\ ~AnyRaised
    /\ last.calls[3].command_id = "c2"
    /\ last.calls[3].session_id = 2

\* C13: cleanup-all calls delete_session once for every name registered
\* when it started, in the order of the registry and also after a delete
\* that raised, and it returns normally; cleanup-session returns normally
\* whether or not delete_session raised.
C13_CleanupVisitsEveryName ==
    /\ last.op = "cleanup" =>
          /\ Len(last.calls) = Len(last.before)
          /\ \A i \in 1..Len(last.calls) :
                 /\ last.calls[i].fn = "delete_session"
                 /\ last.calls[i].session_id = last.before[i][2]
          /\ last.result.kind = "return"
    /\ last.op = "cleanup_session" =>
          /\ last.result.kind = "return"
          /\ Len(last.calls) = IF WasRegistered THEN 1 ELSE 0

C13_Witness ==
    /\ last.op = "cleanup"
    /\ Len(last.before) = 2
    /\ Len(last.calls) = 2
    /\ last.calls[1].raised
    /\ last.calls[2].raised
    /\ last.result.kind = "return"

\* C14: no two names of the registry hold the same identifier, and the
\* identifier of every create_session call differs from the identifier of
\* every create_session call of an earlier operation.
C14_FreshIdentifiers ==
    /\ \A i, j \in 1..Len(sessions) :
           i # j => sessions[i][2] # sessions[j][2]
    /\ \A i \in 1..Len(last.calls) :
           last.calls[i].fn = "create_session" =>
               last.calls[i].session_id \notin {r.id : r \in last.issued}

C14_Witness ==
    /\ IsResolve
    /\ ~WasRegistered
    /\ DictHas(sessions, last.name)
    /\ \E r \in last.issued :
           /\ r.name = last.name
           /\ ~r.raised
           /\ r.id \notin DictValues(sessions)
           /\ r.id # DictGet(sessions, last.name)

\* C15: the command of the request is `cd `, the working directory of the
\* request, ` && ` and the caller's command text, character for character;
\* the request is not asynchronous, and it is submitted for the identifier
\* the registry holds for the name, with the caller's timeout.
C15_RewrittenCommand ==
    (IsExecute /\ Len(CallsOf("execute_session_command")) = 1) =>
        LET req == CallsOf("execute_session_command")[1]
        IN  /\ req.command =
                   <<"c", "d", " ">> \o req.cwd \o <<" ", "&", "&", " ">>
                       \o args.command
            /\ StartsWith(req.cwd, workspace_path)
            /\ (args.folder # None /\ strip(args.folder, "/") # <<>>) =>
                   EndsWith(req.cwd, <<"/">> \o strip(args.folder, "/"))
            /\ EndsWith(req.command, last.command)
            /\ last.command = args.command
            /\ req.var_async = FALSE
            /\ req.timeout = args.timeout
            /\ DictHas(sessions, last.name)
            /\ req.session_id = DictGet(sessions, last.name)

C15_Witness ==
    /\ IsExecute
    /\ Len(CallsOf("execute_session_command")) = 1
    /\ CallsOf("execute_session_command")[1].timeout = 5
    /\ CallsOf("execute_session_command")[1].command =
           <<"c", "d", " ">> \o workspace_path \o <<"/", "a", " ", "&", "&", " ",
             "e", "x", "i", "t", " ", "3">>

\* C16: cleanup-session of a name the registry does not hold calls nothing,
\* changes neither the registry nor the sandbox, and returns without a
\* warning; every delete_session of a cleanup-session or cleanup-all is for
\* an identifier the registry held, so after a cleanup that succeeded
\* nothing is deleted a second time.
C16_CleanupOfAbsentNameIsNoOp ==
    /\ (last.op = "cleanup_session" /\ ~WasRegistered) =>
          /\ last.calls = <<>>
          /\ sessions = last.before
          /\ live = last.liveBefore
          /\ last.result.kind = "return"
          /\ last.result.msg = <<>>
    /\ last.op \in {"cleanup_session", "cleanup"} =>
          /\ \A i \in 1..Len(last.calls) :
                 /\ last.calls[i].fn = "delete_session"
                 /\ last.calls[i].session_id \in DictValues(last.before)
                 /\ last.calls[i].session_id \in
                        {s.id : s \in last.liveBefore}
          /\ last.before = <<>> => (last.calls = <<>> /\ sessions = <<>>)

C16_Witness ==
    /\ last.op = "cleanup_session"
    /\ ~WasRegistered
    /\ \E r \in last.issued : r.name = last.name /\ ~r.raised
    /\ Len(last.before) = 1
    /\ last.calls = <<>>

\* C17: execute_command, resolve-session and cleanup-session of one name
\* leave every other name as it was, present with the same identifier or
\* absent, and make no create_session or delete_session call for the
\* identifier of another name.
C17_OtherNamesUntouched ==
    (IsResolve \/ last.op = "cleanup_session") =>
        \A b \in Names \ {last.name} :
            /\ DictHas(sessions, b) = DictHas(last.before, b)
            /\ DictHas(last.before, b) =>
                  /\ DictGet(sessions, b) = DictGet(last.before, b)
                  /\ [id |-> DictGet(last.before, b), name |-> b] \in live
                  /\ \A i \in 1..Len(last.calls) :
                         last.calls[i].session_id # DictGet(last.before, b)

C17_Witness ==
    /\ last.op = "cleanup_session"
    /\ WasRegistered
    /\ Len(last.before) = 2
    /\ Len(sessions) = 1
    /\ ~DictHas(sessions, last.name)

====
